---- MODULE Spec2Model ----
(***************************************************************************)
(* Bulk Telegram sender (send_bulk_message.py): one asyncio task per       *)
(* recipient (send_one), a shared asyncio.Semaphore, and the tallying      *)
(* loop of main_async.                                                     *)
(*                                                                         *)
(* Time is counted in units of one pacing delay, delay_per_msg = 1/rate    *)
(* seconds, so one second is `rate' units and every sleep of the program   *)
(* is a whole number of units.                                             *)
(***************************************************************************)
EXTENDS Integers, Sequences, FiniteSets, TLC

\* ---- bounds of the model ----
MaxRecipients == 2
MaxConcurrencyArg == 2
MaxRateArg == 2
MaxRetryAfter == 1
MaxDocs == 3
MaxNotifyIds == 3
MaxFormIds == 2

UIDs == 1..MaxRecipients
\* values of --concurrency and --rate: one that max(1, .) clamps, one it keeps
ConcurrencyArgs == {0, MaxConcurrencyArg}
RateArgs == {0, MaxRateArg}
ImageKinds == {"none", "url", "path"}

\* exceptions a send call can raise (telegram.error classes, and anything else)
ErrorKinds == {"RetryAfter", "Forbidden", "BadRequest", "NetworkError", "TimedOut", "Other"}

Max(a, b) == IF a >= b THEN a ELSE b
Min(a, b) == IF a <= b THEN a ELSE b

NoErr == [kind |-> "None", attempt |-> 0, form |-> "none"]
NoExc == [kind |-> "None", retry_after |-> 0, attempt |-> 0]
NoResult == [uid |-> 0, status |-> "none", err |-> NoErr]

\* the exception object raised by an attempt
Exc(kind, ra, attempt) == [kind |-> kind, retry_after |-> ra, attempt |-> attempt]
\* str(e) and repr(e) of an exception object
Str(e) == [kind |-> e.kind, attempt |-> e.attempt, form |-> "str"]
Repr(e) == [kind |-> e.kind, attempt |-> e.attempt, form |-> "repr"]

\* the tuple send_one returns
Outcome(uid, status, err) == [uid |-> uid, status |-> status, err |-> err]

VARIABLES
    args,        \* parsed command line: concurrency, rate, image
    ids,         \* the de-duplicated recipient list
    mainpc,      \* position of main_async
    rate,        \* max(1, args.rate)
    concurrency, \* max(1, args.concurrency)
    sem,         \* asyncio.Semaphore._value
    waiters,     \* asyncio.Semaphore._waiters (FIFO)
    pc,          \* position of each send_one task
    timer,       \* remaining time of the task's asyncio.sleep
    paced,       \* time the task has spent in the pacing sleep of line 77
    waited,      \* time elapsed since the task's first attempt failed with RetryAfter
    attempts,    \* number of network send calls started for the recipient
    firstExc,    \* e of `except RetryAfter as e', while the task is in that clause
    replies,     \* what the recipient's network calls returned or raised, in order
    fileOpen,    \* the task holds an open handle on the local image
    result,      \* the tuple returned by the task
    cancelReq,   \* task.cancel() was called and not yet delivered
    completed,   \* finished tasks not yet yielded by asyncio.as_completed
    consumed,    \* tasks whose result the tallying loop has read
    tallied,     \* the counter the tallying loop incremented for the recipient
    ok, forbidden, failed, after_retry,
    docs,        \* the user_id values of the stored records that have the field
    limit,       \* args.limit
    dry_run,     \* args.dry_run
    cursor,      \* records the cursor of coll.find has still to yield
    acc,         \* the list ids of fetch_user_ids, before de-duplication
    preview,     \* the identifiers printed by the dry run
    storeError,  \* the store raised PyMongoError
    npc,         \* position of the dashboard's "Send message" handler
    nIds,        \* user_ids handed to TelegramHandler.notify_all
    nIdx,        \* position of the loop of _notify_all in user_ids
    nCalls,      \* users for whom bot.send_message was called, in call order
    nResults,    \* what those calls returned or raised, in order
    users,       \* the dashboard's user records, by user_id
    blockedTouched \* a Create/Update press has changed a record that was blocked

fetchVars == <<docs, limit, dry_run, cursor, acc, preview, storeError>>
notifyVars == <<npc, nIds, nIdx, nCalls, nResults>>
dashVars == <<notifyVars, users, blockedTouched>>

vars == <<args, ids, mainpc, rate, concurrency, sem, waiters, pc, timer, paced, waited,
          attempts, firstExc, replies, fileOpen, result, cancelReq, completed,
          consumed, tallied, ok, forbidden, failed, after_retry, fetchVars, dashVars>>

taskVars == <<pc, timer, paced, waited, attempts, firstExc, replies, fileOpen, result>>
tallyVars == <<consumed, tallied, ok, forbidden, failed, after_retry>>
confVars == <<args, ids, rate, concurrency, fetchVars, dashVars>>

Recipients == {ids[i] : i \in 1..Len(ids)}

\* ---- pure pieces of the code ----

\* rate = max(1, args.rate)
Rate(a) == Max(1, a)

\* concurrency = max(1, args.concurrency)
Concurrency(a) == Max(1, a)

\* faulty variant of BackoffSeconds: the margin of one second is forgotten
BackoffSecondsNoMargin(e) == e.retry_after

\* asyncio.sleep(e.retry_after + 1): the argument, in seconds
BackoffSeconds(e) == e.retry_after + 1

\* faulty variant of Locked: the semaphore never blocks
LockedNever(value, ws) == FALSE

\* asyncio.Semaphore.locked(): no free slot, or tasks queued before this one
\* (acquire() queues behind earlier waiters, release() hands the slot to the
\* first of them)
Locked(value, ws) == value = 0 \/ ws # <<>>

\* faulty variant of ExceptClause: Forbidden is handled by the retrying clause
ExceptClauseForbiddenRetried(e) ==
    IF e.kind \in {"RetryAfter", "Forbidden"} THEN "RetryAfter"
    ELSE IF e.kind \in {"BadRequest", "NetworkError", "TimedOut"} THEN "Known"
    ELSE "Exception"

\* faulty variant of ExceptClause: BadRequest is caught together with Forbidden
ExceptClauseBadRequestForbidden(e) ==
    IF e.kind = "RetryAfter" THEN "RetryAfter"
    ELSE IF e.kind \in {"Forbidden", "BadRequest"} THEN "Forbidden"
    ELSE IF e.kind \in {"NetworkError", "TimedOut"} THEN "Known"
    ELSE "Exception"

\* which except clause of the outer try catches exception e of the first attempt
ExceptClause(e) ==
    IF e.kind = "RetryAfter" THEN "RetryAfter"
    ELSE IF e.kind = "Forbidden" THEN "Forbidden"
    ELSE IF e.kind \in {"BadRequest", "NetworkError", "TimedOut"} THEN "Known"
    ELSE "Exception"

\* the tuple returned by the except clauses that do not retry
FirstFailure(uid, e) ==
    IF ExceptClause(e) = "Forbidden" THEN Outcome(uid, "forbidden", Str(e))
    ELSE IF ExceptClause(e) = "Known" THEN Outcome(uid, "error", Str(e))
    ELSE Outcome(uid, "error", Repr(e))

\* faulty variant of RetryFailure: reports the first attempt's exception
RetryFailureFirstError(uid, e, e2) == Outcome(uid, "failed_after_retry", Str(e))

\* the tuple returned when the retry raises e2 (e is the RetryAfter of the first attempt)
RetryFailure(uid, e, e2) == Outcome(uid, "failed_after_retry", Str(e2))

\* faulty variant of ReleasesOn: the slot is released on a normal return only
ReleasesOnReturnOnly(exit) == exit = "returned"

\* `async with semaphore': the slot is released however the block is left
ReleasesOn(exit) == exit \in {"returned", "raised", "cancelled"}

\* `with open(image, "rb") as f': the handle is closed however the block is left
OpensFile(image) == image = "path"

\* faulty variant of TallyOf: the final else is an elif status == "error"
TallyOfErrorOnly(status) ==
    IF status \in {"ok", "ok_after_retry"} THEN "ok"
    ELSE IF status = "forbidden" THEN "forbidden"
    ELSE IF status = "error" THEN "failed"
    ELSE "none"

\* faulty variant of TallyOf: a delivery after retry is counted as a failure
TallyOfRetryAsFailed(status) ==
    IF status = "ok" THEN "ok"
    ELSE IF status = "forbidden" THEN "forbidden"
    ELSE "failed"

\* the counter the tallying loop increments for a status
TallyOf(status) ==
    IF status \in {"ok", "ok_after_retry"} THEN "ok"
    ELSE IF status = "forbidden" THEN "forbidden"
    ELSE "failed"

\* faulty variant of LoopDone: the loop stops after the first result
LoopDoneFirst(count, n) == count >= 1

\* asyncio.as_completed(tasks) is exhausted after len(tasks) results
LoopDone(count, n) == count = n

\* faulty variant of FileAfterCall: the handle is closed on a normal return only
FileAfterCallLeaksOnRaise(open, raised) == open /\ raised

\* lines 91-98 and 111-117: `with open(image, "rb") as f' closes f when the
\* block is left, by return or by exception
FileAfterCall(open, raised) == FALSE

\* faulty variant of Delay: no pacing sleep
DelayNone(rt) == 0

\* main_async, line 161: delay = 1.0 / rate seconds, in time units of 1 / rate second
Delay(rt) == rt \div rt

WaitCap == (MaxRetryAfter + 1) * Rate(MaxRateArg) + 1

Holding == {"granted", "send1", "backoff", "send2"}
Active == {"pace", "wait"} \cup Holding
Finished == {"returned", "raised", "cancelled"}

\* the state of the send run before any task exists
NoTasksYet ==
    /\ rate = 0
    /\ concurrency = 0
    /\ sem = 0
    /\ waiters = <<>>
    /\ pc = [r \in UIDs |-> "none"]
    /\ timer = [r \in UIDs |-> 0]
    /\ paced = [r \in UIDs |-> 0]
    /\ waited = [r \in UIDs |-> 0]
    /\ attempts = [r \in UIDs |-> 0]
    /\ firstExc = [r \in UIDs |-> NoExc]
    /\ replies = [r \in UIDs |-> <<>>]
    /\ fileOpen = [r \in UIDs |-> FALSE]
    /\ result = [r \in UIDs |-> NoResult]
    /\ cancelReq = [r \in UIDs |-> FALSE]
    /\ completed = <<>>
    /\ consumed = 0
    /\ tallied = [r \in UIDs |-> "none"]
    /\ ok = 0
    /\ forbidden = 0
    /\ failed = 0
    /\ after_retry = 0

\* everything but the dashboard's variables
bulkVars == <<args, ids, mainpc, rate, concurrency, sem, waiters, taskVars, cancelReq,
              completed, tallyVars, fetchVars>>

\* the user ids of the dashboard's collection that the model follows
DashUsers == {"u1", "u2"}

\* a user_id with no document in the collection, and a field a document lacks
Unset == "unset"
NoRecord == [exists |-> FALSE, active |-> Unset, blocked |-> Unset, sub_type |-> Unset,
             interval_time |-> 0, created_by |-> Unset, updated_by |-> Unset]

\* the dashboard runs no bulk send: the variables of send_bulk_message.py
\* keep the values they have before a run
NoBulkRun ==
    /\ args = [concurrency |-> 0, rate |-> 0, image |-> "none"]
    /\ ids = <<>>
    /\ mainpc = "off"
    /\ docs = <<>>
    /\ limit = 0
    /\ dry_run = FALSE
    /\ cursor = <<>>
    /\ acc = <<>>
    /\ preview = <<>>
    /\ storeError = FALSE
    /\ NoTasksYet

\* the state of the dashboard before any button is pressed
NoDashboard ==
    /\ npc = "idle"
    /\ nIds = <<>>
    /\ nIdx = 0
    /\ nCalls = <<>>
    /\ nResults = <<>>
    /\ users = [u \in DashUsers |-> NoRecord]
    /\ blockedTouched = FALSE

\* the dashboard after login, before any button is pressed
InitDash == NoBulkRun /\ NoDashboard

\* ---- initial state: the arguments and the fetched recipient list ----
Init ==
    /\ args \in [concurrency : ConcurrencyArgs, rate : RateArgs, image : ImageKinds]
    /\ ids \in {[i \in 1..n |-> i] : n \in 1..MaxRecipients}
    /\ mainpc = "start"
    /\ docs = <<>>
    /\ limit = 0
    /\ dry_run = FALSE
    /\ cursor = <<>>
    /\ acc = <<>>
    /\ preview = <<>>
    /\ storeError = FALSE
    /\ NoTasksYet
    /\ NoDashboard

\* faulty variant of CreateTasks: each task takes its slot before it paces
CreateTasksSlotFirst ==
    /\ mainpc = "start"
    /\ mainpc' = "gather"
    /\ rate' = Rate(args.rate)
    /\ concurrency' = Concurrency(args.concurrency)
    /\ sem' = Concurrency(args.concurrency) - Min(Len(ids), Concurrency(args.concurrency))
    /\ pc' = [r \in UIDs |-> IF r \in Recipients THEN "pace" ELSE "none"]
    /\ timer' = [r \in UIDs |-> IF r \in Recipients THEN Delay(Rate(args.rate)) ELSE 0]
    /\ UNCHANGED <<dashVars, args, ids, fetchVars, waiters, paced, waited, attempts, firstExc, replies,
                   fileOpen, result, cancelReq, completed, tallyVars>>

\* main_async, lines 157-192: pacing parameters, the semaphore, one task per id
CreateTasks ==
    /\ mainpc = "start"
    /\ mainpc' = "gather"
    /\ rate' = Rate(args.rate)
    /\ concurrency' = Concurrency(args.concurrency)
    /\ sem' = Concurrency(args.concurrency)
    /\ pc' = [r \in UIDs |-> IF r \in Recipients THEN "pace" ELSE "none"]
    /\ timer' = [r \in UIDs |-> IF r \in Recipients THEN Delay(Rate(args.rate)) ELSE 0]
    /\ UNCHANGED <<dashVars, args, ids, fetchVars, waiters, paced, waited, attempts, firstExc, replies,
                   fileOpen, result, cancelReq, completed, tallyVars>>

\* time passes for every sleeping task, up to the earliest moment at which
\* a pending asyncio.sleep expires
Tick ==
    /\ mainpc = "gather"
    /\ \E r \in UIDs : timer[r] > 0
    /\ LET d == CHOOSE x \in 1..WaitCap :
                    /\ \E r \in UIDs : timer[r] = x
                    /\ \A r \in UIDs : timer[r] > 0 => timer[r] >= x
       IN  /\ timer' = [r \in UIDs |-> Max(0, timer[r] - d)]
           /\ waited' = [r \in UIDs |-> IF pc[r] = "backoff"
                                        THEN Min(waited[r] + d, WaitCap) ELSE waited[r]]
           /\ paced' = [r \in UIDs |-> IF pc[r] = "pace" /\ timer[r] > 0
                                       THEN paced[r] + d ELSE paced[r]]
    /\ UNCHANGED <<confVars, mainpc, sem, waiters, pc, attempts, firstExc, replies,
                   fileOpen, result, cancelReq, completed, tallyVars>>

\* open(image, "rb") succeeds or raises OSError; it is called for a local path only
OpenResults == IF OpensFile(args.image) THEN BOOLEAN ELSE {TRUE}

\* the task leaves `async with semaphore' and ends; s is the semaphore value
\* at that moment
TaskEnd(r, exit, res, s) ==
    LET rel == ReleasesOn(exit)
        wake == rel /\ waiters # <<>>
    IN  /\ sem' = IF rel /\ ~wake THEN s + 1 ELSE s
        /\ waiters' = IF wake THEN Tail(waiters) ELSE waiters
        /\ pc' = [q \in UIDs |-> IF q = r THEN exit
                                 ELSE IF wake /\ q = Head(waiters) THEN "granted"
                                 ELSE pc[q]]
        /\ result' = [result EXCEPT ![r] = res]
        /\ fileOpen' = [fileOpen EXCEPT ![r] =
                            FileAfterCall(@, res.status \notin {"ok", "ok_after_retry"})]
        /\ waited' = [waited EXCEPT ![r] = 0]
        /\ firstExc' = [firstExc EXCEPT ![r] = NoExc]
        /\ completed' = Append(completed, r)

\* the try body up to the await of the network call, for attempt n; the
\* task holds a slot and s is the semaphore value
StartAttempt(r, n, openOk, s) ==
    IF OpensFile(args.image) /\ ~openOk
    THEN \* open() raises OSError before any network call
         LET e == Exc("OSError", 0, n)
         IN  /\ TaskEnd(r, "returned",
                        IF n = 1 THEN FirstFailure(r, e) ELSE RetryFailure(r, firstExc[r], e), s)
             /\ UNCHANGED attempts
    ELSE /\ pc' = [pc EXCEPT ![r] = IF n = 1 THEN "send1" ELSE "send2"]
         /\ attempts' = [attempts EXCEPT ![r] = @ + 1]
         /\ fileOpen' = [fileOpen EXCEPT ![r] = OpensFile(args.image)]
         /\ sem' = s
         /\ UNCHANGED <<waiters, result, completed, firstExc, waited>>

\* send_one, lines 77-79: the pacing sleep returns and the task enters
\* `async with semaphore'
PaceDone(r) ==
    /\ mainpc = "gather"
    /\ pc[r] = "pace" /\ timer[r] = 0 /\ ~cancelReq[r]
    /\ IF Locked(sem, waiters)
       THEN /\ pc' = [pc EXCEPT ![r] = "wait"]
            /\ waiters' = Append(waiters, r)
            /\ UNCHANGED <<sem, attempts, firstExc, fileOpen, result, completed, waited>>
       ELSE \E openOk \in OpenResults : StartAttempt(r, 1, openOk, sem - 1)
    /\ UNCHANGED <<confVars, mainpc, timer, paced, replies, cancelReq, tallyVars>>

\* a waiter that was handed a slot by a release resumes
Resume(r) ==
    /\ mainpc = "gather"
    /\ pc[r] = "granted" /\ ~cancelReq[r]
    /\ \E openOk \in OpenResults : StartAttempt(r, 1, openOk, sem)
    /\ UNCHANGED <<confVars, mainpc, timer, paced, replies, cancelReq, tallyVars>>

\* faulty variant of SendReturn: the slot is given back for the backoff sleep
SendReturnFreesSlot(r, kind, ra) ==
    /\ mainpc = "gather"
    /\ pc[r] = "send1" /\ ~cancelReq[r]
    /\ LET e == Exc(kind, ra, 1)
       IN  IF kind = "ok"
           THEN /\ TaskEnd(r, "returned", Outcome(r, "ok", NoErr), sem)
                /\ UNCHANGED timer
           ELSE IF ExceptClause(e) = "RetryAfter"
           THEN \* line 108: back off inside the except clause, still in the async with
                /\ pc' = [pc EXCEPT ![r] = "backoff"]
                /\ timer' = [timer EXCEPT ![r] = BackoffSeconds(e) * rate]
                /\ waited' = [waited EXCEPT ![r] = 0]
                /\ firstExc' = [firstExc EXCEPT ![r] = e]
                /\ fileOpen' = [fileOpen EXCEPT ![r] = FileAfterCall(@, TRUE)]
                /\ sem' = sem + 1
                /\ UNCHANGED <<waiters, result, completed>>
           ELSE /\ TaskEnd(r, "returned", FirstFailure(r, e), sem)
                /\ UNCHANGED timer
    /\ replies' = [replies EXCEPT ![r] = Append(@, kind)]
    /\ UNCHANGED <<confVars, mainpc, paced, attempts, cancelReq, tallyVars>>

\* send_one, lines 84-105 and 106-127: the first network call returns (kind
\* "ok") or raises an exception of the given kind
SendReturn(r, kind, ra) ==
    /\ mainpc = "gather"
    /\ pc[r] = "send1" /\ ~cancelReq[r]
    /\ LET e == Exc(kind, ra, 1)
       IN  IF kind = "ok"
           THEN /\ TaskEnd(r, "returned", Outcome(r, "ok", NoErr), sem)
                /\ UNCHANGED timer
           ELSE IF ExceptClause(e) = "RetryAfter"
           THEN \* line 108: back off inside the except clause, still in the async with
                /\ pc' = [pc EXCEPT ![r] = "backoff"]
                /\ timer' = [timer EXCEPT ![r] = BackoffSeconds(e) * rate]
                /\ waited' = [waited EXCEPT ![r] = 0]
                /\ firstExc' = [firstExc EXCEPT ![r] = e]
                /\ fileOpen' = [fileOpen EXCEPT ![r] = FileAfterCall(@, TRUE)]
                /\ UNCHANGED <<sem, waiters, result, completed>>
           ELSE /\ TaskEnd(r, "returned", FirstFailure(r, e), sem)
                /\ UNCHANGED timer
    /\ replies' = [replies EXCEPT ![r] = Append(@, kind)]
    /\ UNCHANGED <<confVars, mainpc, paced, attempts, cancelReq, tallyVars>>

\* send_one, lines 108-117: the backoff sleep returns and the retry starts
BackoffDone(r) ==
    /\ mainpc = "gather"
    /\ pc[r] = "backoff" /\ timer[r] = 0 /\ ~cancelReq[r]
    /\ \E openOk \in OpenResults : StartAttempt(r, 2, openOk, sem)
    /\ UNCHANGED <<confVars, mainpc, timer, paced, replies, cancelReq, tallyVars>>

\* send_one, line 108: `await asyncio.sleep(e.retry_after + 1)' stands in the
\* except clause, outside every try: an error raised by the expression or by
\* the sleep leaves send_one as the task's exception
BackoffRaise(r) ==
    /\ mainpc = "gather"
    /\ pc[r] = "backoff" /\ ~cancelReq[r]
    /\ TaskEnd(r, "raised", NoResult, sem)
    /\ timer' = [timer EXCEPT ![r] = 0]
    /\ UNCHANGED <<confVars, mainpc, paced, attempts, replies, cancelReq, tallyVars>>

\* send_one, lines 109-120: the retry's network call returns or raises
Send2Return(r, kind, ra) ==
    /\ mainpc = "gather"
    /\ pc[r] = "send2" /\ ~cancelReq[r]
    /\ IF kind = "ok"
       THEN TaskEnd(r, "returned", Outcome(r, "ok_after_retry", NoErr), sem)
       ELSE TaskEnd(r, "returned", RetryFailure(r, firstExc[r], Exc(kind, ra, 2)), sem)
    /\ replies' = [replies EXCEPT ![r] = Append(@, kind)]
    /\ UNCHANGED <<confVars, mainpc, paced, timer, attempts, cancelReq, tallyVars>>

\* main_async, lines 194-210: `await coro' on the next completed task, the
\* tallies, and the summary once as_completed is exhausted.  Awaiting a task
\* that ended with an exception re-raises it in main_async; asyncio.run then
\* cancels every task still pending.
Tally ==
    /\ mainpc = "gather"
    /\ completed # <<>>
    /\ LET h == Head(completed)
           st == result[h].status
       IN  IF pc[h] = "raised"
           THEN /\ mainpc' = "cancelling"
                /\ cancelReq' = [r \in UIDs |-> pc[r] \in Active]
                /\ waiters' = <<>>
                /\ UNCHANGED tallyVars
           ELSE /\ ok' = IF TallyOf(st) = "ok" THEN ok + 1 ELSE ok
                /\ after_retry' = IF TallyOf(st) = "ok" /\ st = "ok_after_retry"
                                  THEN after_retry + 1 ELSE after_retry
                /\ forbidden' = IF TallyOf(st) = "forbidden" THEN forbidden + 1 ELSE forbidden
                /\ failed' = IF TallyOf(st) = "failed" THEN failed + 1 ELSE failed
                /\ tallied' = [tallied EXCEPT ![h] = TallyOf(st)]
                /\ consumed' = consumed + 1
                /\ mainpc' = IF LoopDone(consumed + 1, Len(ids)) THEN "done" ELSE "gather"
                /\ UNCHANGED <<cancelReq, waiters>>
    /\ completed' = Tail(completed)
    /\ UNCHANGED <<confVars, sem, taskVars>>

\* a pending task receives CancelledError at its await; CancelledError is not
\* an Exception, so no except clause of send_one catches it
TaskCancelled(r) ==
    /\ mainpc \in {"cancelling", "stopping"}
    /\ cancelReq[r]
    /\ cancelReq' = [cancelReq EXCEPT ![r] = FALSE]
    /\ pc' = [pc EXCEPT ![r] = "cancelled"]
    /\ sem' = IF pc[r] \in Holding /\ ReleasesOn("cancelled") THEN sem + 1 ELSE sem
    /\ fileOpen' = [fileOpen EXCEPT ![r] = FileAfterCall(@, TRUE)]
    /\ timer' = [timer EXCEPT ![r] = 0]
    /\ waited' = [waited EXCEPT ![r] = 0]
    /\ firstExc' = [firstExc EXCEPT ![r] = NoExc]
    /\ UNCHANGED <<confVars, mainpc, paced, waiters, attempts, replies, result,
                   completed, tallyVars>>

\* asyncio.run re-raises the exception of main_async once the cancelled tasks ended
Crash ==
    /\ mainpc = "cancelling"
    /\ \A r \in UIDs : ~cancelReq[r]
    /\ mainpc' = "crashed"
    /\ UNCHANGED <<confVars, sem, waiters, taskVars, cancelReq, completed, tallyVars>>

SendResults == {<<"ok", 0>>} \cup {<<k, 0>> : k \in ErrorKinds \ {"RetryAfter"}}
                   \cup {<<"RetryAfter", ra>> : ra \in 0..MaxRetryAfter}

Next ==
    \/ CreateTasks
    \/ Tick
    \/ \E r \in UIDs : PaceDone(r)
    \/ \E r \in UIDs : Resume(r)
    \/ \E r \in UIDs, x \in SendResults : SendReturn(r, x[1], x[2])
    \/ \E r \in UIDs : BackoffDone(r)
    \/ \E r \in UIDs : BackoffRaise(r)
    \/ \E r \in UIDs, x \in SendResults : Send2Return(r, x[1], x[2])
    \/ Tally
    \/ \E r \in UIDs : TaskCancelled(r)
    \/ Crash

Spec == Init /\ [][Next]_vars

\* ---- the run under a fair event loop ----

\* the asyncio event loop runs every runnable task and fires every due
\* timer; every pending network call and every sleep ends
Fairness ==
    /\ WF_vars(CreateTasks)
    /\ WF_vars(Tick)
    /\ WF_vars(Tally)
    /\ WF_vars(Crash)
    /\ \A r \in UIDs :
          /\ WF_vars(PaceDone(r))
          /\ WF_vars(Resume(r))
          /\ WF_vars(\E x \in SendResults : SendReturn(r, x[1], x[2]))
          /\ WF_vars(BackoffDone(r) \/ BackoffRaise(r))
          /\ WF_vars(\E x \in SendResults : Send2Return(r, x[1], x[2]))
          /\ WF_vars(TaskCancelled(r))

SpecLive == Spec /\ Fairness

\* ---- the run under an operator interrupt ----

\* main, lines 233-236: SIGINT arrives while asyncio.run(main_async(args)) is
\* running; asyncio.run cancels main_async and every task still pending
Interrupt ==
    /\ mainpc = "gather"
    /\ mainpc' = "stopping"
    /\ cancelReq' = [r \in UIDs |-> pc[r] \in Active]
    /\ waiters' = <<>>
    /\ UNCHANGED <<confVars, sem, taskVars, completed, tallyVars>>

\* main, lines 235-236: the cancelled tasks have ended, KeyboardInterrupt
\* reaches main, which prints "Interrupted."
Interrupted ==
    /\ mainpc = "stopping"
    /\ \A r \in UIDs : ~cancelReq[r]
    /\ mainpc' = "interrupted"
    /\ UNCHANGED <<confVars, sem, waiters, taskVars, cancelReq, completed, tallyVars>>

NextInterrupt ==
    \/ CreateTasks
    \/ Tick
    \/ \E r \in UIDs : PaceDone(r)
    \/ \E r \in UIDs : Resume(r)
    \/ \E r \in UIDs, x \in SendResults : SendReturn(r, x[1], x[2])
    \/ \E r \in UIDs : BackoffDone(r)
    \/ \E r \in UIDs : BackoffRaise(r)
    \/ \E r \in UIDs, x \in SendResults : Send2Return(r, x[1], x[2])
    \/ Tally
    \/ \E r \in UIDs : TaskCancelled(r)
    \/ Crash
    \/ Interrupt
    \/ Interrupted

SpecInterrupt == Init /\ [][NextInterrupt]_vars

\* ---- the recipient fetch and the start of main_async ----

\* a stored user_id value: its BSON type, its number, its characters
IntVal(n) == [t |-> "int", n |-> n, s |-> <<>>]
BoolVal(b) == [t |-> "bool", n |-> IF b THEN 1 ELSE 0, s |-> <<>>]
StrVal(s) == [t |-> "str", n |-> 0, s |-> s]
NullVal == [t |-> "null", n |-> 0, s |-> <<>>]

Digits == {"0", "1", "2"}
StoredStrings == {<<"1">>, <<"2">>, <<"0", "1">>, <<"-", "1">>, <<"x">>}
StoredValues == {IntVal(n) : n \in -1..2} \cup {BoolVal(TRUE), NullVal}
                    \cup {StrVal(s) : s \in StoredStrings}

\* str.isdigit(): not empty and every character a digit
IsDigit(s) == Len(s) > 0 /\ \A i \in 1..Len(s) : s[i] \in Digits

DigitValue(c) == IF c = "0" THEN 0 ELSE IF c = "1" THEN 1 ELSE 2

\* int(s) of a digit string
ParseInt(s) ==
    LET F[i \in 0..Len(s)] == IF i = 0 THEN 0 ELSE 10 * F[i - 1] + DigitValue(s[i])
    IN  F[Len(s)]

\* line 59: isinstance(uid, (int,)) or (isinstance(uid, str) and uid.isdigit());
\* a Python bool is an instance of int
Accepts(v) == v.t \in {"int", "bool"} \/ (v.t = "str" /\ IsDigit(v.s))

\* line 60: int(uid)
ToInt(v) == IF v.t = "str" THEN ParseInt(v.s) ELSE v.n

\* line 54: limit if isinstance(limit, int) and limit > 0 else 0 (0: no limit)
FindLimit(l) == IF l > 0 THEN l ELSE 0

\* the records the cursor yields
Cursor(ds, l) ==
    IF FindLimit(l) = 0 THEN ds ELSE SubSeq(ds, 1, Min(FindLimit(l), Len(ds)))

\* faulty variant of Dedup: duplicates are kept
DedupNone(l) == l

\* line 61: list(dict.fromkeys(ids))
Dedup(l) ==
    LET F[i \in 0..Len(l)] ==
            IF i = 0 THEN <<>>
            ELSE IF \E j \in 1..(i - 1) : l[j] = l[i] THEN F[i - 1]
            ELSE Append(F[i - 1], l[i])
    IN  F[Len(l)]

PreviewLen == 10

\* faulty variant of Preview: the whole list is printed
PreviewAll(l) == l

\* line 153: ids[: min(10, len(ids))]
Preview(l) == SubSeq(l, 1, Min(PreviewLen, Len(l)))

\* the exit status of the process at a final position of main
ExitStatus(p) == IF p \in {"exit1", "crashed"} THEN 1 ELSE 0

Terminal == {"done", "crashed", "noids", "dry", "exit1", "interrupted"}

\* fetch_user_ids, lines 49-56
FetchFind ==
    /\ mainpc = "fetch"
    /\ mainpc' = "iter"
    /\ cursor' = Cursor(docs, limit)
    /\ acc' = <<>>
    /\ UNCHANGED <<dashVars, args, ids, rate, concurrency, docs, limit, dry_run, preview, storeError,
                   sem, waiters, taskVars, cancelReq, completed, tallyVars>>

\* fetch_user_ids, lines 57-60: one iteration of `for doc in cursor'
FetchDoc ==
    /\ mainpc = "iter"
    /\ cursor # <<>>
    /\ acc' = IF Accepts(Head(cursor)) THEN Append(acc, ToInt(Head(cursor))) ELSE acc
    /\ cursor' = Tail(cursor)
    /\ UNCHANGED <<dashVars, args, ids, rate, concurrency, docs, limit, dry_run, preview, storeError,
                   mainpc, sem, waiters, taskVars, cancelReq, completed, tallyVars>>

\* fetch_user_ids, line 61, and the assignment at line 136
FetchReturn ==
    /\ mainpc = "iter"
    /\ cursor = <<>>
    /\ ids' = Dedup(acc)
    /\ mainpc' = "fetched"
    /\ UNCHANGED <<dashVars, args, rate, concurrency, docs, limit, dry_run, cursor, acc, preview,
                   storeError, sem, waiters, taskVars, cancelReq, completed, tallyVars>>

\* faulty variant of FetchRaise: the error is swallowed and the ids read so
\* far are returned
FetchRaiseSwallowed ==
    /\ mainpc \in {"fetch", "iter"}
    /\ storeError' = TRUE
    /\ ids' = Dedup(acc)
    /\ mainpc' = "fetched"
    /\ UNCHANGED <<dashVars, args, rate, concurrency, docs, limit, dry_run, cursor, acc, preview,
                   sem, waiters, taskVars, cancelReq, completed, tallyVars>>

\* fetch_user_ids, lines 62-64: the store raises PyMongoError, sys.exit(1)
FetchRaise ==
    /\ mainpc \in {"fetch", "iter"}
    /\ storeError' = TRUE
    /\ mainpc' = "exit1"
    /\ UNCHANGED <<dashVars, args, ids, rate, concurrency, docs, limit, dry_run, cursor, acc, preview,
                   sem, waiters, taskVars, cancelReq, completed, tallyVars>>

\* main_async, lines 146-155: no ids, or the dry run, end the run here
Dispatch ==
    /\ mainpc = "fetched"
    /\ IF ids = <<>>
       THEN mainpc' = "noids" /\ UNCHANGED preview
       ELSE IF dry_run
       THEN mainpc' = "dry" /\ preview' = Preview(ids)
       ELSE mainpc' = "start" /\ UNCHANGED preview
    /\ UNCHANGED <<dashVars, args, ids, rate, concurrency, docs, limit, dry_run, cursor, acc,
                   storeError, sem, waiters, taskVars, cancelReq, completed, tallyVars>>

\* ---- fetch_user_ids on arbitrary stored records ----
Limits == {-1, 0, 2}

DocLists == UNION {[1..n -> StoredValues] : n \in 0..MaxDocs}

InitFetch ==
    /\ args \in [concurrency : {0}, rate : {0}, image : {"none"}]
    /\ ids = <<>>
    /\ mainpc = "fetch"
    /\ docs \in DocLists
    /\ limit \in Limits
    /\ dry_run = FALSE
    /\ cursor = <<>>
    /\ acc = <<>>
    /\ preview = <<>>
    /\ storeError = FALSE
    /\ NoTasksYet
    /\ NoDashboard

NextFetch ==
    \/ FetchFind
    \/ FetchDoc
    \/ FetchReturn
    \/ FetchRaise

SpecFetch == InitFetch /\ [][NextFetch]_vars

\* ---- the whole program: fetch, then dry run or dispatch ----

\* stored records whose identifiers are 1..n, a list with one identifier
\* stored twice, and a list longer than the dry-run preview
MainDocs ==
    {[i \in 1..n |-> IntVal(i)] : n \in 0..MaxRecipients}
        \cup {<<IntVal(1), StrVal(<<"1">>)>>}
LongDocs == [i \in 1..(PreviewLen + 1) |-> IntVal(i)]

InitMain ==
    /\ args \in [concurrency : ConcurrencyArgs, rate : RateArgs, image : ImageKinds]
    /\ ids = <<>>
    /\ mainpc = "fetch"
    /\ dry_run \in BOOLEAN
    /\ docs \in (IF dry_run THEN MainDocs \cup {LongDocs} ELSE MainDocs)
    /\ limit = 0
    /\ cursor = <<>>
    /\ acc = <<>>
    /\ preview = <<>>
    /\ storeError = FALSE
    /\ NoTasksYet
    /\ NoDashboard

NextMain ==
    \/ FetchFind
    \/ FetchDoc
    \/ FetchReturn
    \/ FetchRaise
    \/ Dispatch
    \/ CreateTasks
    \/ Tick
    \/ \E r \in UIDs : PaceDone(r)
    \/ \E r \in UIDs : Resume(r)
    \/ \E r \in UIDs, x \in SendResults : SendReturn(r, x[1], x[2])
    \/ \E r \in UIDs : BackoffDone(r)
    \/ \E r \in UIDs : BackoffRaise(r)
    \/ \E r \in UIDs, x \in SendResults : Send2Return(r, x[1], x[2])
    \/ Tally
    \/ \E r \in UIDs : TaskCancelled(r)
    \/ Crash

SpecMain == InitMain /\ [][NextMain]_vars

\* ---- properties ----

\* the concurrency cap of the run, from the command line
Cap == Max(1, args.concurrency)
RunOver == mainpc \in {"done", "crashed"}
OpenCalls == {r \in UIDs : pc[r] \in {"send1", "send2"}}
HasOutcome(r) == result[r].status # "none" /\ result[r].uid = r

\* C1: in every dispatch run each recipient produces exactly one outcome
\* tuple: when the run is over no recipient is without an outcome, and an
\* outcome once produced is never changed.
C1_OneOutcomePerRecipient ==
    /\ [](RunOver => \A r \in Recipients : HasOutcome(r))
    /\ [][\A r \in UIDs : result[r] # NoResult => result'[r] = result[r]]_vars

\* C2 (as stated): at the end of the run
\* ok + after_retry + forbidden + failed = number of recipients.
C2_SumWithAfterRetry ==
    mainpc = "done" => ok + after_retry + forbidden + failed = Len(ids)

\* C2 (amended): at the end of the run ok + forbidden + failed = number of
\* recipients, after_retry being a part of ok.
C2_TallySum ==
    mainpc = "done" => /\ ok + forbidden + failed = Len(ids)
                       /\ after_retry <= ok

C2_Witness ==
    mainpc = "done" /\ after_retry >= 1 /\ ok > after_retry

\* C3: the number of recipients with an open network send call (first
\* attempt or retry) never exceeds the cap max(1, --concurrency).
C3_OpenCallsWithinCap == Cardinality(OpenCalls) <= Cap

C3_Witness ==
    /\ Cardinality(OpenCalls) = Cap
    /\ \E r \in UIDs : pc[r] = "wait"
    /\ \E r \in UIDs : pc[r] = "send2"

\* C4: a first attempt raising RetryAfter(r) followed by a successful second
\* attempt gives ok_after_retry; the second attempt starts only after
\* r + 1 seconds (rate time units per second) of backoff, and only after
\* the first attempt has finished.
C4_RetryAfterBackoff ==
    \A r \in UIDs :
        /\ replies[r] = <<"RetryAfter", "ok">> => result[r].status = "ok_after_retry"
        /\ pc[r] = "send2" =>
              /\ firstExc[r].kind = "RetryAfter"
              /\ waited[r] >= (firstExc[r].retry_after + 1) * Max(1, args.rate)
        /\ attempts[r] = 2 => Len(replies[r]) >= 1
        /\ attempts[r] - Len(replies[r]) \in {0, 1}

C4_Witness ==
    /\ args.rate = MaxRateArg
    /\ \E r \in UIDs :
        /\ replies[r] = <<"RetryAfter", "ok">>
        /\ result[r].status = "ok_after_retry"
    /\ \E r \in UIDs :
        /\ pc[r] = "send2"
        /\ firstExc[r].retry_after = MaxRetryAfter
        /\ waited[r] = (MaxRetryAfter + 1) * MaxRateArg

\* C5: at most two send attempts per recipient, the second only after a
\* RetryAfter on the first; a failing second attempt gives a failed outcome
\* with the second attempt's error description, tallied under failed.
C5_SingleRetry ==
    \A r \in UIDs :
        /\ attempts[r] <= 2
        /\ attempts[r] = 2 => replies[r][1] = "RetryAfter"
        /\ (Len(replies[r]) = 2 /\ replies[r][2] # "ok") =>
              /\ result[r].status = "failed_after_retry"
              /\ result[r].err = [kind |-> replies[r][2], attempt |-> 2, form |-> "str"]
              /\ tallied[r] \in {"none", "failed"}
              /\ mainpc = "done" => tallied[r] = "failed"

C5_Witness ==
    \E r \in UIDs :
        /\ replies[r] = <<"RetryAfter", "Forbidden">>
        /\ tallied[r] = "failed"
        /\ failed >= 1

\* C6: a first attempt raising Forbidden gives the outcome forbidden after
\* exactly one send attempt, with no backoff and no retry.
C6_ForbiddenNoRetry ==
    \A r \in UIDs :
        (Len(replies[r]) >= 1 /\ replies[r][1] = "Forbidden") =>
            /\ pc[r] = "returned"
            /\ result[r].status = "forbidden"
            /\ attempts[r] = 1
            /\ replies[r] = <<"Forbidden">>

C6_Witness ==
    \E r \in UIDs : replies[r] = <<"Forbidden">> /\ tallied[r] = "forbidden"

\* C7: a first attempt raising BadRequest, NetworkError, TimedOut or any
\* unclassified error gives a failed outcome with that error's description
\* after exactly one send attempt.
C7_ErrorNoRetry ==
    \A r \in UIDs :
        (Len(replies[r]) >= 1
             /\ replies[r][1] \in {"BadRequest", "NetworkError", "TimedOut", "Other"}) =>
            /\ pc[r] = "returned"
            /\ result[r].status = "error"
            /\ result[r].err.kind = replies[r][1]
            /\ result[r].err.attempt = 1
            /\ result[r].err.form \in {"str", "repr"}
            /\ attempts[r] = 1
            /\ Len(replies[r]) = 1
            /\ tallied[r] \in {"none", "failed"}

C7_Witness ==
    /\ \E r \in UIDs : replies[r] = <<"BadRequest">> /\ tallied[r] = "failed"
    /\ \E r \in UIDs : replies[r] = <<"Other">> /\ tallied[r] = "failed"

\* C8: no error raised while processing a recipient leaves its send_one
\* task: no task ends with an exception, main_async is never aborted by one,
\* and no recipient is left without its outcome.
C8_NoErrorEscapes ==
    /\ \A r \in UIDs : pc[r] \notin {"raised", "cancelled"}
    /\ mainpc \notin {"cancelling", "crashed"}
    /\ \A r \in UIDs : cancelReq[r] = FALSE

\* C9: the summary is printed only when every recipient's task has
\* finished with an outcome.
C9_SummaryAfterAll ==
    mainpc = "done" =>
        \A r \in Recipients : pc[r] = "returned" /\ HasOutcome(r) /\ tallied[r] # "none"

C9_Witness ==
    /\ mainpc = "done"
    /\ Len(ids) = MaxRecipients
    /\ \E r \in UIDs : Len(replies[r]) = 2

\* C10: acquisitions and releases of the semaphore are balanced on every
\* exit path: the tasks inside `async with' account for exactly the slots
\* taken, the in-flight count stays within 0..cap, and all slots are free
\* once every task has finished.
C10_SlotsBalanced ==
    mainpc # "start" =>
        /\ sem \in 0..Cap
        /\ sem + Cardinality({r \in UIDs : pc[r] \in Holding}) = Cap
        /\ (\A r \in Recipients : pc[r] \in Finished) => sem = Cap

C10_Witness ==
    /\ \A r \in Recipients : pc[r] \in Finished
    /\ \E r \in UIDs : pc[r] = "raised"
    /\ \E r \in UIDs : pc[r] = "cancelled"
    /\ sem = Cap


\* C11: after an operator interrupt no new send attempt is started, and
\* every send that was in flight at the interrupt completes (its network
\* call returns or raises) instead of being abandoned.
C11_InterruptLetsSendsFinish ==
    /\ [](mainpc \in {"stopping", "interrupted"} =>
             \A r \in UIDs : pc[r] = "cancelled" => Len(replies[r]) = attempts[r])
    /\ [][(mainpc \in {"stopping", "interrupted"}) => (attempts' = attempts)]_vars


NoSendAtAll == \A r \in UIDs : pc[r] = "none" /\ attempts[r] = 0 /\ replies[r] = <<>>

\* C12: a dry run prints exactly the first min(10, n) of the n fetched
\* identifiers, in fetch order, creates no recipient task and makes no send
\* attempt before it ends.
C12_DryRunPreview ==
    dry_run =>
        /\ NoSendAtAll
        /\ mainpc \in {"fetch", "iter", "fetched", "dry", "noids", "exit1"}
        /\ mainpc = "dry" =>
              /\ Len(preview) = (IF Len(ids) < 10 THEN Len(ids) ELSE 10)
              /\ \A i \in 1..Len(preview) : preview[i] = ids[i]
        /\ mainpc # "dry" => preview = <<>>

C12_Witness ==
    /\ dry_run
    /\ mainpc = "dry"
    /\ Len(ids) = 11
    /\ Len(preview) = 10
    /\ NoSendAtAll

\* the records the fetch has read, and the first record that gives identifier v
Fetched == Cursor(docs, limit)
FirstPos(v) ==
    CHOOSE k \in 1..Len(Fetched) :
        /\ Accepts(Fetched[k]) /\ ToInt(Fetched[k]) = v
        /\ \A j \in 1..(k - 1) : ~(Accepts(Fetched[j]) /\ ToInt(Fetched[j]) = v)

\* C13: the list fetch_user_ids returns has no duplicate integer, holds
\* exactly the identifiers of the accepted records, and orders them by
\* their first occurrence in the record sequence.
C13_DedupFirstOccurrence ==
    mainpc = "fetched" =>
        /\ \A i, j \in 1..Len(ids) : i < j => ids[i] # ids[j]
        /\ {ids[i] : i \in 1..Len(ids)}
              = {ToInt(Fetched[k]) : k \in {x \in 1..Len(Fetched) : Accepts(Fetched[x])}}
        /\ \A i, j \in 1..Len(ids) : i < j => FirstPos(ids[i]) < FirstPos(ids[j])

C13_Witness ==
    /\ mainpc = "fetched"
    /\ Len(Fetched) = 3
    /\ Fetched[1] = StrVal(<<"2">>)
    /\ Fetched[2] = IntVal(1)
    /\ Fetched[3] = IntVal(2)
    /\ ids = <<2, 1>>

\* C14: when the store raises during the fetch the program ends with exit
\* status 1; the fetch is not run again, no send attempt is made and no
\* summary is printed.
C14_StoreErrorIsFatal ==
    /\ [](storeError =>
             /\ mainpc = "exit1"
             /\ ExitStatus(mainpc) = 1
             /\ ids = <<>>
             /\ NoSendAtAll
             /\ consumed = 0)
    /\ [][storeError = FALSE]_vars

C14_Witness ==
    /\ storeError
    /\ mainpc = "exit1"
    /\ acc # <<>>
    /\ cursor # <<>>

\* C15: a run that is not a dry run and whose fetch returned recipients
\* ends with the summary printed and exit status 0, whatever the
\* per-recipient results are.
C15_SummaryAndExitZero ==
    (mainpc \in Terminal /\ ~dry_run /\ ~storeError /\ ids # <<>>) =>
        (mainpc = "done" /\ ExitStatus(mainpc) = 0)

\* C20: every identifier fetch_user_ids returns is a positive integer that
\* comes from a record holding a positive integer or a digit string of a
\* positive integer; booleans, zero, negative and non-numeric values give
\* no identifier.
C20_PositiveIntegerIds ==
    mainpc = "fetched" =>
        \A i \in 1..Len(ids) :
            /\ ids[i] > 0
            /\ \E k \in 1..Len(Fetched) :
                  \/ Fetched[k].t = "int" /\ Fetched[k].n = ids[i]
                  \/ Fetched[k].t = "str" /\ IsDigit(Fetched[k].s)
                        /\ ParseInt(Fetched[k].s) = ids[i]

\* C16: with a local image path the file handle of a send attempt is open
\* exactly while that attempt's network call is pending, for the first
\* attempt and the retry alike: it is closed during the backoff sleep and
\* once the recipient's task has ended.
C16_FileOpenOnlyDuringCall ==
    \A r \in UIDs :
        /\ fileOpen[r] => (pc[r] \in {"send1", "send2"} /\ args.image = "path")
        /\ (pc[r] \in {"send1", "send2"} /\ args.image = "path") => fileOpen[r]

C16_Witness ==
    /\ args.image = "path"
    /\ \E r \in UIDs :
          /\ pc[r] = "returned"
          /\ attempts[r] = 2
          /\ result[r].status = "failed_after_retry"
    /\ \A r \in UIDs : ~fileOpen[r]

\* C17: in the tallying loop an outcome ok_after_retry increments both the
\* delivered total and the after-retry sub-count, and an outcome ok
\* increments the delivered total only; so the sub-count never exceeds the
\* delivered total, and delivered + forbidden + failed is the number of
\* outcomes processed.
C17_TallyCounters ==
    /\ [](after_retry <= ok /\ ok + forbidden + failed = consumed)
    /\ [][(consumed' = consumed + 1) =>
             LET st == result[Head(completed)].status
             IN  /\ (st = "ok_after_retry") =>
                        (ok' = ok + 1 /\ after_retry' = after_retry + 1
                           /\ forbidden' = forbidden /\ failed' = failed)
                 /\ (st = "ok") =>
                        (ok' = ok + 1 /\ after_retry' = after_retry
                           /\ forbidden' = forbidden /\ failed' = failed)]_vars

C17_Witness ==
    /\ consumed = 2
    /\ ok = 2
    /\ after_retry = 1
    /\ \E r \in UIDs : result[r].status = "ok_after_retry"
    /\ \E r \in UIDs : result[r].status = "ok"

\* time is counted in units of 1 / rate second, so a task has paced for
\* 1 / max(1, args.rate) seconds when paced * max(1, args.rate) = rate
PacedIntervals(r) == paced[r] * Max(1, args.rate)

\* C18 as stated: every send attempt of a recipient, the retry included, is
\* preceded in the recipient's task by a pacing wait of its own, of
\* 1 / max(1, rate) seconds each.
C18_PacingBeforeEveryAttempt ==
    \A r \in UIDs : attempts[r] * rate <= PacedIntervals(r)

\* C18: a recipient's task takes the pacing wait of 1 / max(1, rate)
\* seconds exactly once, before its first send attempt; the retry attempt is
\* preceded by the backoff sleep only, with no further pacing wait.
C18_PacingOncePerRecipient ==
    /\ [](\A r \in UIDs :
             /\ attempts[r] >= 1 => PacedIntervals(r) = rate
             /\ PacedIntervals(r) <= rate)
    /\ [][\A r \in UIDs :
             (attempts'[r] = 2 /\ attempts[r] = 1) =>
                 (pc[r] = "backoff" /\ paced'[r] = paced[r])]_vars

C18_Witness ==
    \E r \in UIDs :
        /\ attempts[r] = 2
        /\ paced[r] > 0
        /\ PacedIntervals(r) = rate
        /\ pc[r] = "send2"

\* C19: a recipient task paces before it acquires a concurrency slot and
\* holds no slot while pacing: all the tasks pace at the same time with
\* every slot free, whatever the cap is, a slot is taken only by a task
\* whose pacing delay has elapsed, and so up to cap send attempts start at
\* the same instant.
C19_PacingHoldsNoSlot ==
    /\ []((mainpc = "gather" /\ \A r \in Recipients : pc[r] = "pace") => sem = Cap)
    /\ [](\A r \in UIDs : pc[r] = "pace" => attempts[r] = 0)
    /\ [][(sem' < sem) =>
             \E r \in UIDs : pc[r] = "pace" /\ timer[r] = 0 /\ pc'[r] \in {"send1", "returned"}]_vars

C19_Witness ==
    /\ mainpc = "gather"
    /\ Cap = 2
    /\ Len(ids) = 2
    /\ \A r \in Recipients :
          /\ pc[r] = "send1"
          /\ replies[r] = <<>>
          /\ PacedIntervals(r) = rate
          /\ timer[r] = 0

\* C21: when every network call and every sleep ends and the event loop is
\* fair, every run reaches a state in which every recipient has its
\* outcome; no task is left waiting for a concurrency slot.
C21_AllOutcomesEventually ==
    <>(\A r \in Recipients : HasOutcome(r) /\ pc[r] = "returned")

InBackoff == {r \in UIDs : pc[r] = "backoff"}
InRetry == {r \in UIDs : pc[r] \in {"backoff", "send2"}}

\* C22: a task that received RetryAfter keeps its slot through the backoff
\* sleep and the retry: each such task accounts for one taken slot, while
\* cap tasks are in backoff no other recipient starts a send, and with
\* cap 1 no call to another recipient starts or ends between a recipient's
\* first attempt and the end of its retry.
C22_SlotKeptThroughBackoff ==
    /\ [](Cardinality(InRetry) <= Cap - sem)
    /\ [][(Cardinality(InBackoff) = Cap) =>
             \A q \in UIDs : attempts'[q] > attempts[q] => q \in InBackoff]_vars
    /\ [][(Cap = 1) =>
             \A r, q \in UIDs :
                 (r # q /\ pc[r] \in {"send1", "backoff", "send2"}) =>
                     (attempts'[q] = attempts[q] /\ replies'[q] = replies[q])]_vars

C22_Witness ==
    /\ Cap = 1
    /\ \E r, q \in Recipients :
          /\ r # q
          /\ pc[r] = "send2"
          /\ waited[r] > 0
          /\ pc[q] = "wait"
          /\ attempts[q] = 0

\* ---- the dashboard broadcast: TelegramHandler.notify_all ----

NotifyUsers == 1..MaxNotifyIds
NotifyLists == UNION {[1..n -> NotifyUsers] : n \in 0..MaxNotifyIds}
NotifyResults == {"ok", "raise"}

\* faulty variant of Propagates: the error of a send is captured per recipient
PropagatesNever(res) == FALSE

\* _notify_all, lines 20-21: the await stands in no try, so an exception of
\* bot.send_message leaves the loop, run_until_complete and notify_all
Propagates(res) == res = "raise"

\* streamlit_app.py, lines 121-123: the button is pressed, user_ids is read
\* from get_users() and notify_all starts a new event loop
SendMessagePressed ==
    /\ npc = "idle"
    /\ nIds' \in NotifyLists
    /\ nIdx' = 1
    /\ npc' = "loop"
    /\ UNCHANGED <<bulkVars, nCalls, nResults, users, blockedTouched>>

\* _notify_all, lines 20-21 and __notify, line 17: the loop takes the next
\* user and awaits bot.send_message
NotifyCall ==
    /\ npc = "loop"
    /\ nIdx <= Len(nIds)
    /\ nCalls' = Append(nCalls, nIds[nIdx])
    /\ npc' = "await"
    /\ UNCHANGED <<bulkVars, nIds, nIdx, nResults, users, blockedTouched>>

\* the awaited send returns or raises
NotifyReturn(res) ==
    /\ npc = "await"
    /\ nResults' = Append(nResults, res)
    /\ IF Propagates(res)
       THEN npc' = "raised" /\ UNCHANGED nIdx
       ELSE npc' = "loop" /\ nIdx' = nIdx + 1
    /\ UNCHANGED <<bulkVars, nIds, nCalls, users, blockedTouched>>

\* streamlit_app.py, line 124: notify_all returned, the confirmation is written
NotifyDone ==
    /\ npc = "loop"
    /\ nIdx > Len(nIds)
    /\ npc' = "shown"
    /\ UNCHANGED <<bulkVars, nIds, nIdx, nCalls, nResults, users, blockedTouched>>

NextNotify ==
    \/ SendMessagePressed
    \/ NotifyCall
    \/ \E res \in NotifyResults : NotifyReturn(res)
    \/ NotifyDone

SpecNotify == InitDash /\ [][NextNotify]_vars

\* C23: notify_all sends to the given user ids one at a time in list order
\* and captures no error: when the send to the k-th user raises, no later
\* user is sent to and the error reaches the caller, so the confirmation is
\* written only when every send succeeded.
C23_SequentialFailFast ==
    /\ [](/\ Len(nCalls) <= Len(nIds)
          /\ nCalls = SubSeq(nIds, 1, Len(nCalls))
          /\ Len(nCalls) - Len(nResults) = (IF npc = "await" THEN 1 ELSE 0)
          /\ \A k \in 1..Len(nResults) : nResults[k] = "raise" =>
                (k = Len(nResults) /\ k = Len(nCalls) /\ npc = "raised")
          /\ npc = "shown" =>
                (Len(nResults) = Len(nIds) /\ \A k \in 1..Len(nResults) : nResults[k] = "ok"))
    /\ [][(npc = "raised") => (nCalls' = nCalls /\ npc' = "raised")]_vars

C23_Witness ==
    /\ npc = "raised"
    /\ Len(nIds) = 3
    /\ nResults = <<"ok", "raise">>
    /\ nCalls = <<nIds[1], nIds[2]>>
    /\ nIds[3] # nIds[2]


\* ---- the Humanizer dashboard: the buttons that write user records ----

Usernames == {"admin", "staff"}
SubTypes == {"3 hours", "1 day"}
Intervals == {10, 100}
Forms == [by : Usernames, sub_type : SubTypes, interval_time : Intervals]

\* the text input split at spaces: a list of user ids
IdLists == UNION {[1..n -> DashUsers] : n \in 1..MaxFormIds}

\* user_info.get("blocked") is truthy
Blocked(rec) == rec.blocked = "yes"

\* get_users, lines 61-73: the records the admin's table lists are active
\* (and not expired or with slots left)
Listed(us) == {u \in DashUsers : us[u].exists /\ us[u].active = "yes"}

\* faulty variant of CreateOrUpdate: the blocked flag of the record is not read
CreateOrUpdateAnyway(rec, f) ==
    [rec EXCEPT !.exists = TRUE, !.active = "yes", !.sub_type = f.sub_type,
                !.interval_time = f.interval_time,
                !.created_by = f.by, !.updated_by = f.by]

\* lines 172-204: one user_id of "Create/Update user (with slots)"
CreateOrUpdate(rec, f) ==
    IF rec.exists
    THEN IF Blocked(rec)
         THEN rec
         ELSE [rec EXCEPT !.active = "yes", !.sub_type = f.sub_type,
                          !.interval_time = f.interval_time,
                          !.created_by = f.by, !.updated_by = f.by]
    ELSE [exists |-> TRUE, active |-> "yes", blocked |-> Unset, sub_type |-> f.sub_type,
          interval_time |-> f.interval_time, created_by |-> f.by, updated_by |-> f.by]

\* lines 208-215: one user_id of "Update Interval Time"; update_one upserts
SetInterval(rec, f) ==
    [rec EXCEPT !.exists = TRUE, !.interval_time = f.interval_time, !.updated_by = f.by]

\* lines 234-242 and 275-283: one user_id of "Remove users" or "Delete user"
Deactivate(rec, f) ==
    [rec EXCEPT !.exists = TRUE, !.active = "no", !.updated_by = f.by]

\* lines 288-297: one user_id of "Block user"
Block(rec, f) ==
    [rec EXCEPT !.exists = TRUE, !.active = "no", !.blocked = "yes", !.updated_by = f.by]

\* what a button does to one record
RecordAfter(button, rec, f) ==
    IF button = "create" THEN CreateOrUpdate(rec, f)
    ELSE IF button = "interval" THEN SetInterval(rec, f)
    ELSE IF button = "block" THEN Block(rec, f)
    ELSE Deactivate(rec, f)

\* the for loop of a button over the entered user ids, in list order
RECURSIVE ForEach(_, _, _, _)
ForEach(button, l, f, us) ==
    IF l = <<>> THEN us
    ELSE ForEach(button, Tail(l), f,
                 [us EXCEPT ![Head(l)] = RecordAfter(button, us[Head(l)], f)])

\* a button is pressed with the ids l and the form values f
Press(button, l, f) ==
    /\ npc = "idle"
    /\ users' = ForEach(button, l, f, users)
    /\ blockedTouched' =
           (blockedTouched \/
               (button = "create" /\ \E u \in DashUsers : Blocked(users[u]) /\ users'[u] # users[u]))
    /\ UNCHANGED <<bulkVars, notifyVars>>

CreateUpdatePressed == \E l \in IdLists, f \in Forms : Press("create", l, f)
UpdateIntervalPressed == \E l \in IdLists, f \in Forms : Press("interval", l, f)
DeletePressed == \E l \in IdLists, f \in Forms : Press("delete", l, f)
BlockPressed == \E l \in IdLists, f \in Forms : Press("block", l, f)

\* lines 218-243: only admin sees the table; the multiselect offers the listed users
RemovePressed ==
    \E l \in IdLists, f \in Forms :
        /\ f.by = "admin"
        /\ \A i \in 1..Len(l) : l[i] \in Listed(users)
        /\ \A i, j \in 1..Len(l) : i # j => l[i] # l[j]
        /\ Press("remove", l, f)

NextDash ==
    \/ CreateUpdatePressed
    \/ UpdateIntervalPressed
    \/ RemovePressed
    \/ DeletePressed
    \/ BlockPressed

SpecDash == InitDash /\ [][NextDash]_vars

\* C24: in the Humanizer dashboard a blocked record stays blocked and
\* inactive under every sequence of button presses: no press clears the
\* blocked flag, Create/Update leaves a blocked record unchanged, and every
\* blocked record is inactive.
C24_BlockedStaysBlocked ==
    /\ [](\A u \in DashUsers : Blocked(users[u]) => users[u].active = "no")
    /\ [](~blockedTouched)
    /\ [][\A u \in DashUsers : Blocked(users[u]) =>
             (Blocked(users'[u]) /\ users'[u].active = "no"
                /\ users'[u].sub_type = users[u].sub_type)]_vars

C24_Witness ==
    \E u, v \in DashUsers :
        /\ u # v
        /\ Blocked(users[u])
        /\ users[u].active = "no"
        /\ users[u].sub_type = "1 day"
        /\ users[u].interval_time = 100
        /\ users[u].created_by = "staff"
        /\ users[u].updated_by = "admin"
        /\ users[v].active = "yes"
        /\ ~Blocked(users[v])

====
